---------------------------- MODULE Spec2Model ----------------------------
(***************************************************************************)
(* SocketLabsClient (src/src/socketlabsClient.js): the facade that         *)
(* validates the client's credentials, asks the request factory for the    *)
(* wire object, POSTs it and settles the promise returned by send().       *)
(*                                                                         *)
(* JavaScript values are records tagged by the field t, so that values of  *)
(* different JavaScript types can be compared.                             *)
(***************************************************************************)
EXTENDS Integers, Sequences, FiniteSets

(***************************************************************************)
(* Bounds.                                                                 *)
(***************************************************************************)
MaxSends == 2

SendIds == 1..MaxSends

\* The client objects, numbered in the order they are constructed.
Clients == {1, 2}

(***************************************************************************)
(* JavaScript values.                                                      *)
(***************************************************************************)
Undefined == [t |-> "undefined"]

Null == [t |-> "null"]

Str(s) == [t |-> "string", s |-> s]

Num(n) == [t |-> "number", n |-> n]

ErrorObject(m) == [t |-> "error", message |-> m]

\* JavaScript's ToBoolean on the values used here.
Truthy(v) ==
    CASE v.t = "undefined" -> FALSE
      [] v.t = "null" -> FALSE
      [] v.t = "string" -> v.s # ""
      [] v.t = "number" -> v.n # 0
      [] OTHER -> TRUE

\* typeof v === 'string'
IsString(v) == v.t = "string"

(***************************************************************************)
(* sendResultEnum and sendResponse (required at lines 9-10).               *)
(***************************************************************************)
SendResults ==
    {"Success", "Warning", "InvalidServerId", "InvalidApiKey",
     "InvalidAuthentication", "AccountDisabled",
     "EmailAddressValidationFailed", "RecipientValidationFailed",
     "MessageValidationFailed", "AttachmentValidationFailed",
     "TooManyRecipients", "ServerValidationFailed", "InternalError",
     "UnknownError"}

\* new sendResponse({result: r})
SendResponse(r) ==
    [t |-> "sendResponse", result |-> r, responseMessage |-> Undefined,
     transactionReceipt |-> Undefined]

(***************************************************************************)
(* sendValidator.validateCredentials (./core/sendValidator, not in src/).  *)
(***************************************************************************)
ValidServerId(serverId) == serverId.t = "number" /\ serverId.n > 0

ValidApiKey(apiKey) == apiKey.t = "string" /\ apiKey.s # ""

validateCredentials(serverId, apiKey) ==
    IF ~ValidServerId(serverId) THEN SendResponse("InvalidServerId")
    ELSE IF ~ValidApiKey(apiKey) THEN SendResponse("InvalidApiKey")
    ELSE SendResponse("Success")

(***************************************************************************)
(* The constructor, lines 40-73.                                           *)
(***************************************************************************)
DefaultEndpointUrl == Str("https://inject.socketlabs.com/api/v1/email")

\* `SocketLabs-node/${version} (nodejs ${process.version})`, line 58: the
\* template's parts in order.
UserAgent ==
    <<"SocketLabs-node/", "version", " (nodejs ", "process.version", ")">>

\* Default parameter values of the options object, lines 40-43: a default
\* applies when the option is undefined.
DefaultParam(v, d) == IF v.t = "undefined" THEN d ELSE v

\* Lines 63-66 taking any override that is not null, the empty one too.
EndpointUrlOfNonNull(endpointUrl) ==
    IF endpointUrl # Null THEN endpointUrl ELSE DefaultEndpointUrl

\* Lines 63-66.
EndpointUrlOf(endpointUrl) ==
    IF Truthy(endpointUrl) /\ endpointUrl # Str("")
    THEN endpointUrl
    ELSE DefaultEndpointUrl

NoClient == [t |-> "undefined"]

NewClient(serverId, apiKey, endpointUrl) ==
    [t |-> "SocketLabsClient",
     serverId |-> serverId,
     apiKey |-> apiKey,
     userAgent |-> UserAgent,
     endpointUrl |-> EndpointUrlOf(DefaultParam(endpointUrl, Null))]

ServerIdArgs == {Undefined, Str("abc"), Num(0), Num(-1), Num(123)}

ApiKeyArgs == {Undefined, Str(""), Str("key")}

EndpointUrlArgs == {Undefined, Null, Str(""), Str("https://alt.example/api")}

OptionalProxyArgs == {Undefined, Str("http://proxy:8080"), Num(8080)}


(***************************************************************************)
(* messageData, as the caller passes it to send (lines 77-92).             *)
(***************************************************************************)
EmailAddress(a) == [t |-> "emailAddress", emailAddress |-> a]

MessageData(from, to, subject, textBody, htmlBody) ==
    [t |-> "messageData", messageType |-> "basic", from |-> from, to |-> to,
     subject |-> subject, textBody |-> textBody, htmlBody |-> htmlBody]

ValidMessage ==
    MessageData(EmailAddress("a@x.com"), <<EmailAddress("b@x.com")>>,
                Str("Hi"), Str("body"), Undefined)

EmptyToMessage ==
    MessageData(EmailAddress("a@x.com"), <<>>, Str("Hi"), Str("body"),
                Undefined)

EmptyBodiesMessage ==
    MessageData(EmailAddress("a@x.com"), <<EmailAddress("b@x.com")>>,
                Str("Hi"), Str(""), Undefined)

\* No recipient and no body.
EmptyToEmptyBodiesMessage ==
    MessageData(EmailAddress("a@x.com"), <<>>, Str("Hi"), Undefined, Str(""))

\* No From address and no recipient.
NoFromEmptyToMessage ==
    MessageData(Undefined, <<>>, Str("Hi"), Str("body"), Undefined)

MessageDatas ==
    {ValidMessage, EmptyToMessage, EmptyBodiesMessage,
     EmptyToEmptyBodiesMessage, NoFromEmptyToMessage}

(***************************************************************************)
(* ./core/injectionRequestFactory and the message validation it performs   *)
(* (not in src/): section 4.1 and 4.2 of the specification.                *)
(***************************************************************************)
validateMessage(md) ==
    IF md.from.t # "emailAddress" \/ md.from.emailAddress = ""
    THEN SendResponse("EmailAddressValidationFailed")
    ELSE IF Len(md.to) = 0 THEN SendResponse("RecipientValidationFailed")
    ELSE IF ~Truthy(md.subject) \/ (~Truthy(md.textBody) /\ ~Truthy(md.htmlBody))
    THEN SendResponse("MessageValidationFailed")
    ELSE SendResponse("Success")

\* The wire object of a basic message.
ToWire(md) ==
    [t |-> "wire",
     subject |-> md.subject,
     from |-> [emailAddress |-> md.from.emailAddress],
     to |-> [k \in 1..Len(md.to) |-> [emailAddress |-> md.to[k].emailAddress]],
     textBody |-> md.textBody,
     htmlBody |-> md.htmlBody]

\* How the promise of generateRequest(messageData) settles.
generateRequest(md) ==
    LET v == validateMessage(md)
    IN  IF v.result = "Success"
        THEN [settled |-> "resolved", value |-> ToWire(md)]
        ELSE [settled |-> "rejected", value |-> v]

\* The values the fulfilment handler of line 105 may receive: the wire
\* object, and a falsy value, the case its guard at line 106 tells apart.
RequestJsonValues(md) ==
    IF generateRequest(md).settled = "resolved"
    THEN {generateRequest(md).value, Null}
    ELSE {}

(***************************************************************************)
(* The transport: what request.post hands to its callback (line 122).      *)
(***************************************************************************)
HttpResponse(statusCode, errorCode, receipt) ==
    [t |-> "response", statusCode |-> statusCode,
     body |-> [errorCode |-> errorCode, transactionReceipt |-> receipt]]

Responses ==
    {HttpResponse(200, "Success", Str("abc")),
     HttpResponse(401, "InvalidAuthentication", Undefined)}

TransportErrors == {Str("ECONNREFUSED"), ErrorObject("ETIMEDOUT")}

\* (err, res) pairs: an error and no response, or a response and no error.
CallbackArgs ==
    {[err |-> e, res |-> Undefined] : e \in TransportErrors}
        \cup {[err |-> Null, res |-> r] : r \in Responses}

(***************************************************************************)
(* sendResponse.parse (./sendResponse, not in src/): section 4.3.          *)
(***************************************************************************)
parse(res) ==
    IF res.t # "response" THEN SendResponse("UnknownError")
    ELSE IF res.statusCode = 200 /\ res.body.errorCode = "Success"
    THEN [SendResponse("Success") EXCEPT
              !.transactionReceipt = res.body.transactionReceipt]
    ELSE IF res.body.errorCode \in SendResults \ {"Success"}
    THEN SendResponse(res.body.errorCode)
    ELSE SendResponse("UnknownError")

(***************************************************************************)
(* Promises: the first call of resolve or reject settles, later calls      *)
(* change nothing.                                                         *)
(***************************************************************************)
PendingPromise == [state |-> "pending", value |-> Undefined]

Resolve(p, v) ==
    IF p.state = "pending" THEN [state |-> "resolved", value |-> v] ELSE p

Reject(p, v) ==
    IF p.state = "pending" THEN [state |-> "rejected", value |-> v] ELSE p

(***************************************************************************)
(* State.                                                                  *)
(*   clients       the SocketLabsClient objects constructed so far         *)
(*   requestModule the options of the shared `request` module (line 1)     *)
(*   sends         the invocations of send: where each one is, the promise *)
(*                 it returned, and what it has done                       *)
(***************************************************************************)
VARIABLES clients, requestModule, sends

vars == <<clients, requestModule, sends>>

IdleSend ==
    [pc |-> "idle", client |-> 0, md |-> Undefined,
     promise |-> PendingPromise, result |-> Undefined,
     factoryCalls |-> 0, requestJson |-> Undefined, factoryError |-> Undefined,
     posts |-> <<>>, cb |-> Undefined, parseCalls |-> 0, settleCalls |-> 0]

Init ==
    /\ clients = [c \in Clients |-> NoClient]
    /\ requestModule = [proxy |-> Undefined]
    /\ sends = [i \in SendIds |-> IdleSend]

\* new SocketLabsClient(serverId, apiKey, {endpointUrl, optionalProxy}).
\* request.defaults (line 69) returns a new wrapper, which the constructor
\* drops; the `request` that send posts with keeps its options.
Constructor(c, serverId, apiKey, endpointUrl, optionalProxy) ==
    /\ clients[c] = NoClient
    /\ \A d \in Clients : d < c => clients[d] # NoClient
    /\ clients' = [clients EXCEPT ![c] = NewClient(serverId, apiKey, endpointUrl)]
    /\ UNCHANGED <<requestModule, sends>>

(***************************************************************************)
(* send, lines 95-150.                                                     *)
(***************************************************************************)
\* resolve and reject kept on the client object in place of the closure:
\* a handler would settle the promise of the latest invocation made on its
\* client.
SettlesLatestOnClient(i) ==
    LET same == {j \in SendIds :
                    j = i \/ (sends[j].pc # "idle"
                                /\ sends[j].client = sends[i].client)}
    IN  CHOOSE j \in same : \A k \in same : k <= j

\* The promise that an invocation's resolve and reject settle: they are the
\* parameters of the executor of line 96, so each invocation's handlers
\* hold their own.
Settles(i) == i

\* The body with the two credentials in each other's place.
PostBodySwapped(this, requestJson) ==
    [serverId |-> this.apiKey,
     apiKey |-> this.serverId,
     messages |-> <<requestJson>>]

\* Lines 108-112.
PostBody(this, requestJson) ==
    [serverId |-> this.serverId,
     apiKey |-> this.apiKey,
     messages |-> <<requestJson>>]

\* The options of request.post, lines 114-121.
PostOptions(this, requestJson) ==
    [body |-> PostBody(this, requestJson),
     headers |-> [h \in {"User-Agent"} |-> this.userAgent],
     json |-> TRUE,
     url |-> this.endpointUrl]

\* Send without the `return` of line 101: the rejected invocation goes on
\* to the factory.
SendNoReturn(i, c, md) ==
    /\ sends[i].pc = "idle"
    /\ \A j \in SendIds : j < i => sends[j].pc # "idle"
    /\ clients[c] # NoClient
    /\ LET this == clients[c]
           result == validateCredentials(this.serverId, this.apiKey)
           started == [sends EXCEPT ![i].client = c, ![i].md = md,
                                    ![i].result = result]
           rejected == IF result.result # "Success"
                       THEN [started EXCEPT
                                ![i].promise = Reject(@, result),
                                ![i].settleCalls = @ + 1]
                       ELSE started
       IN  sends' = [rejected EXCEPT
                ![i].pc = "factory",
                ![i].factoryCalls = @ + 1]
    /\ UNCHANGED <<clients, requestModule>>

\* Send with the arguments of validateCredentials in the other order.
SendSwappedCredentials(i, c, md) ==
    /\ sends[i].pc = "idle"
    /\ \A j \in SendIds : j < i => sends[j].pc # "idle"
    /\ clients[c] # NoClient
    /\ LET this == clients[c]
           result == validateCredentials(this.apiKey, this.serverId)
           started == [sends EXCEPT ![i].client = c, ![i].result = result]
       IN  IF result.result # "Success"
           THEN sends' = [started EXCEPT
                    ![i].pc = "done",
                    ![i].promise = Reject(@, result),
                    ![i].settleCalls = @ + 1]
           ELSE sends' = [started EXCEPT
                    ![i].pc = "factory",
                    ![i].md = md,
                    ![i].factoryCalls = @ + 1]
    /\ UNCHANGED <<clients, requestModule>>

\* Send clearing this.apiKey once it has been validated.
SendConsumesApiKey(i, c, md) ==
    /\ sends[i].pc = "idle"
    /\ \A j \in SendIds : j < i => sends[j].pc # "idle"
    /\ clients[c] # NoClient
    /\ LET this == clients[c]
           result == validateCredentials(this.serverId, this.apiKey)
           started == [sends EXCEPT ![i].client = c, ![i].result = result]
       IN  IF result.result # "Success"
           THEN sends' = [started EXCEPT
                    ![i].pc = "done",
                    ![i].promise = Reject(@, result),
                    ![i].settleCalls = @ + 1]
           ELSE sends' = [started EXCEPT
                    ![i].pc = "factory",
                    ![i].md = md,
                    ![i].factoryCalls = @ + 1]
    /\ clients' = [clients EXCEPT ![c].apiKey = Undefined]
    /\ UNCHANGED requestModule

\* send(messageData) on client c, as invocation i: the executor of lines
\* 96-104, up to the call of the factory.  Invocations are numbered in the
\* order they are made.  md is the messageData handed to the factory at line
\* 104: an invocation rejected at line 101 never reads its messageData.
Send(i, c, md) ==
    /\ sends[i].pc = "idle"
    /\ \A j \in SendIds : j < i => sends[j].pc # "idle"
    /\ clients[c] # NoClient
    /\ LET this == clients[c]
           result == validateCredentials(this.serverId, this.apiKey)
           started == [sends EXCEPT ![i].client = c, ![i].result = result]
       IN  IF result.result # "Success"
           THEN sends' = [started EXCEPT
                    ![i].pc = "done",
                    ![Settles(i)].promise = Reject(@, result),
                    ![i].settleCalls = @ + 1]
           ELSE sends' = [started EXCEPT
                    ![i].pc = "factory",
                    ![i].md = md,
                    ![i].factoryCalls = @ + 1]
    /\ UNCHANGED <<clients, requestModule>>

\* The fulfilment handler without the guard of line 106: it posts whatever
\* the factory resolved with.
OnFactoryResolvedNoGuard(i, requestJson) ==
    /\ sends[i].pc = "factory"
    /\ requestJson \in RequestJsonValues(sends[i].md)
    /\ LET this == clients[sends[i].client]
       IN  sends' = [sends EXCEPT
                ![i].pc = "posted",
                ![i].requestJson = requestJson,
                ![i].posts = Append(@,
                    [options |-> PostOptions(this, requestJson),
                     proxy |-> requestModule.proxy])]
    /\ UNCHANGED <<clients, requestModule>>

\* The fulfilment handler of the factory's promise, lines 105-145.
OnFactoryResolved(i, requestJson) ==
    /\ sends[i].pc = "factory"
    /\ requestJson \in RequestJsonValues(sends[i].md)
    /\ LET this == clients[sends[i].client]
       IN  IF Truthy(requestJson)
           THEN sends' = [sends EXCEPT
                    ![i].pc = "posted",
                    ![i].requestJson = requestJson,
                    ![i].posts = Append(@,
                        [options |-> PostOptions(this, requestJson),
                         proxy |-> requestModule.proxy])]
           ELSE sends' = [sends EXCEPT
                    ![i].pc = "done",
                    ![i].requestJson = requestJson]
    /\ UNCHANGED <<clients, requestModule>>

\* The rejection handler rejecting with a new UnknownError response in
\* place of the factory's error.
OnFactoryRejectedWrapped(i) ==
    /\ sends[i].pc = "factory"
    /\ generateRequest(sends[i].md).settled = "rejected"
    /\ LET errorResult == generateRequest(sends[i].md).value
       IN  sends' = [sends EXCEPT
                ![i].pc = "done",
                ![i].factoryError = errorResult,
                ![i].promise = Reject(@, SendResponse("UnknownError")),
                ![i].settleCalls = @ + 1]
    /\ UNCHANGED <<clients, requestModule>>

\* The rejection handler calling resolve in place of reject.
OnFactoryRejectedResolves(i) ==
    /\ sends[i].pc = "factory"
    /\ generateRequest(sends[i].md).settled = "rejected"
    /\ LET errorResult == generateRequest(sends[i].md).value
       IN  sends' = [sends EXCEPT
                ![i].pc = "done",
                ![i].factoryError = errorResult,
                ![i].promise = Resolve(@, errorResult),
                ![i].settleCalls = @ + 1]
    /\ UNCHANGED <<clients, requestModule>>

\* The rejection handler calling reject without the factory's error.
OnFactoryRejectedNoValue(i) ==
    /\ sends[i].pc = "factory"
    /\ generateRequest(sends[i].md).settled = "rejected"
    /\ LET errorResult == generateRequest(sends[i].md).value
       IN  sends' = [sends EXCEPT
                ![i].pc = "done",
                ![i].factoryError = errorResult,
                ![i].promise = Reject(@, Undefined),
                ![i].settleCalls = @ + 1]
    /\ UNCHANGED <<clients, requestModule>>

\* The rejection handler of the factory's promise, lines 146-148.
OnFactoryRejected(i) ==
    /\ sends[i].pc = "factory"
    /\ generateRequest(sends[i].md).settled = "rejected"
    /\ LET errorResult == generateRequest(sends[i].md).value
       IN  sends' = [sends EXCEPT
                ![i].pc = "done",
                ![i].factoryError = errorResult,
                ![Settles(i)].promise = Reject(@, errorResult),
                ![i].settleCalls = @ + 1]
    /\ UNCHANGED <<clients, requestModule>>

\* The callback rejecting with the transport's error as it came.
PostCallbackRawError(i, err, res) ==
    /\ sends[i].pc = "posted"
    /\ [err |-> err, res |-> res] \in CallbackArgs
    /\ LET response == parse(res)
           onError == [sends EXCEPT
                ![i].promise = Reject(@, err),
                ![i].settleCalls = @ + 1]
           afterError == IF Truthy(err) THEN onError ELSE sends
       IN  sends' = [afterError EXCEPT
                ![i].pc = "done",
                ![i].cb = [err |-> err, res |-> res],
                ![i].parseCalls = @ + 1,
                ![i].promise =
                    IF response.result = "Success"
                    THEN Resolve(@, response)
                    ELSE Reject(@, response),
                ![i].settleCalls = @ + 1]
    /\ UNCHANGED <<clients, requestModule>>

\* The callback resolving with the parsed response whatever its result.
PostCallbackAlwaysResolves(i, err, res) ==
    /\ sends[i].pc = "posted"
    /\ [err |-> err, res |-> res] \in CallbackArgs
    /\ LET unknown == SendResponse("UnknownError")
           result == IF IsString(err)
                     THEN [unknown EXCEPT !.responseMessage = err]
                     ELSE unknown
           response == parse(res)
           onError == [sends EXCEPT
                ![i].result = result,
                ![i].promise = Reject(@, result),
                ![i].settleCalls = @ + 1]
           afterError == IF Truthy(err) THEN onError ELSE sends
       IN  sends' = [afterError EXCEPT
                ![i].pc = "done",
                ![i].cb = [err |-> err, res |-> res],
                ![i].parseCalls = @ + 1,
                ![i].promise = Resolve(@, response),
                ![i].settleCalls = @ + 1]
    /\ UNCHANGED <<clients, requestModule>>

\* The callback setting responseMessage to the error whatever its type.
PostCallbackAlwaysAnnotates(i, err, res) ==
    /\ sends[i].pc = "posted"
    /\ [err |-> err, res |-> res] \in CallbackArgs
    /\ LET unknown == SendResponse("UnknownError")
           result == [unknown EXCEPT !.responseMessage = err]
           response == parse(res)
           onError == [sends EXCEPT
                ![i].result = result,
                ![i].promise = Reject(@, result),
                ![i].settleCalls = @ + 1]
           afterError == IF Truthy(err) THEN onError ELSE sends
       IN  sends' = [afterError EXCEPT
                ![i].pc = "done",
                ![i].cb = [err |-> err, res |-> res],
                ![i].parseCalls = @ + 1,
                ![i].promise =
                    IF response.result = "Success"
                    THEN Resolve(@, response)
                    ELSE Reject(@, response),
                ![i].settleCalls = @ + 1]
    /\ UNCHANGED <<clients, requestModule>>

\* The callback of request.post, lines 122-142.  After the reject of line
\* 132 the function goes on to line 135.
PostCallback(i, err, res) ==
    /\ sends[i].pc = "posted"
    /\ [err |-> err, res |-> res] \in CallbackArgs
    /\ LET unknown == SendResponse("UnknownError")
           result == IF IsString(err)
                     THEN [unknown EXCEPT !.responseMessage = err]
                     ELSE unknown
           response == parse(res)
           onError == [sends EXCEPT
                ![i].result = result,
                ![Settles(i)].promise = Reject(@, result),
                ![i].settleCalls = @ + 1]
           afterError == IF Truthy(err) THEN onError ELSE sends
       IN  sends' = [afterError EXCEPT
                ![i].pc = "done",
                ![i].cb = [err |-> err, res |-> res],
                ![i].parseCalls = @ + 1,
                ![Settles(i)].promise =
                    IF response.result = "Success"
                    THEN Resolve(@, response)
                    ELSE Reject(@, response),
                ![i].settleCalls = @ + 1]
    /\ UNCHANGED <<clients, requestModule>>

Next ==
    \/ \E c \in Clients, serverId \in ServerIdArgs, apiKey \in ApiKeyArgs,
          endpointUrl \in EndpointUrlArgs, optionalProxy \in OptionalProxyArgs :
            Constructor(c, serverId, apiKey, endpointUrl, optionalProxy)
    \/ \E i \in SendIds, c \in Clients, md \in MessageDatas : Send(i, c, md)
    \/ \E i \in SendIds,
          requestJson \in UNION {RequestJsonValues(md) : md \in MessageDatas} :
            OnFactoryResolved(i, requestJson)
    \/ \E i \in SendIds : OnFactoryRejected(i)
    \/ \E i \in SendIds, a \in CallbackArgs : PostCallback(i, a.err, a.res)

Spec == Init /\ [][Next]_vars

(***************************************************************************)
(* Properties.                                                             *)
(***************************************************************************)
Started(i) == sends[i].pc # "idle"

ThisOf(i) == clients[sends[i].client]

Rejected(v) == [state |-> "rejected", value |-> v]

Resolved(v) == [state |-> "resolved", value |-> v]

CredentialsOf(i) == validateCredentials(ThisOf(i).serverId, ThisOf(i).apiKey)

\* C1: an invocation whose credential validation returns a result other
\* than Success is rejected at once with exactly that result; the factory
\* is not invoked and no POST is issued for it.
C1_CredentialFailureRejects ==
    \A i \in SendIds :
        (Started(i) /\ CredentialsOf(i).result # "Success") =>
            /\ sends[i].promise = Rejected(CredentialsOf(i))
            /\ sends[i].pc = "done"
            /\ sends[i].factoryCalls = 0
            /\ sends[i].posts = <<>>

C1_Witness ==
    \E i \in SendIds :
        /\ Started(i)
        /\ CredentialsOf(i).result = "InvalidApiKey"
        /\ sends[i].promise.state = "rejected"

\* serverId is missing, non-numeric or <= 0.
BadServerId(v) ==
    \/ v.t \in {"undefined", "null"}
    \/ v.t # "number"
    \/ (v.t = "number" /\ v.n <= 0)

\* apiKey is missing or empty.
BadApiKey(v) == v.t \in {"undefined", "null"} \/ v = Str("")

\* C2: on a client whose serverId is missing, non-numeric or <= 0, send
\* rejects with InvalidServerId whatever the apiKey and the messageData; on
\* a client with a valid serverId whose apiKey is missing or empty, send
\* rejects with InvalidApiKey.
C2_InvalidCredentialResults ==
    \A i \in SendIds :
        Started(i) =>
            /\ BadServerId(ThisOf(i).serverId) =>
                    /\ sends[i].promise.state = "rejected"
                    /\ sends[i].promise.value.result = "InvalidServerId"
            /\ (~BadServerId(ThisOf(i).serverId) /\ BadApiKey(ThisOf(i).apiKey)) =>
                    /\ sends[i].promise.state = "rejected"
                    /\ sends[i].promise.value.result = "InvalidApiKey"

C2_Witness ==
    \E i, j \in SendIds :
        /\ Started(i) /\ Started(j)
        /\ ThisOf(i).serverId = Num(0) /\ ThisOf(i).apiKey = Str("key")
        /\ sends[i].promise.value.result = "InvalidServerId"
        /\ ThisOf(j).serverId = Num(123) /\ ThisOf(j).apiKey = Str("")
        /\ sends[j].promise.value.result = "InvalidApiKey"

\* C3: when the factory's promise rejects, the send promise is rejected
\* with the factory's error unchanged and no POST is issued for the
\* invocation.
C3_FactoryFailureRejects ==
    \A i \in SendIds :
        (sends[i].factoryCalls > 0
            /\ generateRequest(sends[i].md).settled = "rejected") =>
            /\ sends[i].posts = <<>>
            /\ sends[i].pc \in {"factory", "done"}
            /\ sends[i].pc = "done" =>
                    sends[i].promise = Rejected(generateRequest(sends[i].md).value)

C3_Witness ==
    \E i \in SendIds :
        /\ sends[i].md = EmptyToMessage
        /\ sends[i].factoryCalls = 1
        /\ sends[i].pc = "done"
        /\ sends[i].promise.state = "rejected"

TransportFailed(i) ==
    /\ sends[i].cb # Undefined
    /\ Truthy(sends[i].cb.err)
    /\ sends[i].cb.res = Undefined

TransportResponded(i) ==
    /\ sends[i].cb # Undefined
    /\ ~Truthy(sends[i].cb.err)

\* C4: after a transport error (an error and no response) the send promise
\* is rejected with a SendResponse whose result is UnknownError: not the raw
\* error, not a Success.
C4_TransportErrorIsUnknownError ==
    \A i \in SendIds :
        TransportFailed(i) =>
            /\ sends[i].promise.state = "rejected"
            /\ sends[i].promise.value.t = "sendResponse"
            /\ sends[i].promise.value.result = "UnknownError"
            /\ sends[i].promise.value # sends[i].cb.err

C4_Witness ==
    \E i \in SendIds :
        /\ TransportFailed(i)
        /\ sends[i].cb.err = ErrorObject("ETIMEDOUT")
        /\ sends[i].promise.state = "rejected"

\* C5: when the transport returns a response without error, the send
\* promise is resolved exactly when the parsed result is Success and is
\* rejected otherwise, and in both cases its value is the parsed SendResponse.
C5_ResponseDecidesSettlement ==
    \A i \in SendIds :
        TransportResponded(i) =>
            LET response == parse(sends[i].cb.res)
            IN  /\ sends[i].promise.value = response
                /\ sends[i].promise.state \in {"resolved", "rejected"}
                /\ sends[i].promise.state = "resolved" <=> response.result = "Success"

C5_Witness ==
    \E i, j \in SendIds :
        /\ TransportResponded(i) /\ TransportResponded(j)
        /\ sends[i].promise.state = "resolved"
        /\ sends[i].promise.value.transactionReceipt = Str("abc")
        /\ sends[j].promise.state = "rejected"
        /\ sends[j].promise.value.result = "InvalidAuthentication"

\* C6: a transport failure is terminal: once the callback has reported an
\* error and the UnknownError outcome is produced, sendResponse.parse is not
\* invoked on that path and no further resolve or reject is attempted.
C6_TransportFailureIsTerminal ==
    \A i \in SendIds :
        TransportFailed(i) =>
            /\ sends[i].parseCalls = 0
            /\ sends[i].settleCalls = 1

\* C7: every send invocation settles: an invocation with no handler left to
\* run (neither the factory's promise nor the transport's callback is
\* outstanding) has a resolved or rejected promise, whatever the factory
\* resolved or rejected with.
C7_EverySendSettles ==
    \A i \in SendIds :
        sends[i].pc = "done" => sends[i].promise.state # "pending"

\* C8: every POST of an invocation has a body with exactly the keys
\* serverId, apiKey and messages, holding the client's serverId and apiKey
\* and the one-element list of the wire object the factory produced for the
\* invocation, and goes to the client's endpoint URL with the client's
\* User-Agent header.
C8_PostCarriesCredentialsAndWire ==
    \A i \in SendIds :
        \A k \in 1..Len(sends[i].posts) :
            LET o == sends[i].posts[k].options
            IN  /\ DOMAIN o.body = {"serverId", "apiKey", "messages"}
                /\ o.body.serverId = ThisOf(i).serverId
                /\ o.body.apiKey = ThisOf(i).apiKey
                /\ generateRequest(sends[i].md).settled = "resolved"
                /\ o.body.messages = <<generateRequest(sends[i].md).value>>
                /\ o.url = ThisOf(i).endpointUrl
                /\ DOMAIN o.headers = {"User-Agent"}
                /\ o.headers["User-Agent"] = ThisOf(i).userAgent
                /\ o.json

C8_Witness ==
    \E i \in SendIds :
        /\ Len(sends[i].posts) = 1
        /\ sends[i].posts[1].options.body.messages = <<ToWire(ValidMessage)>>
        /\ sends[i].posts[1].options.body.serverId = Num(123)

\* What an invocation running alone settles with, from the client's
\* configuration, its messageData, what the factory resolved with and what
\* the transport handed to its callback.
OutcomeAlone(this, md, requestJson, cb) ==
    LET credentials == validateCredentials(this.serverId, this.apiKey)
        built == generateRequest(md)
        unknown == SendResponse("UnknownError")
    IN  IF credentials.result # "Success" THEN Rejected(credentials)
        ELSE IF built.settled = "rejected" THEN Rejected(built.value)
        ELSE IF ~Truthy(requestJson) THEN PendingPromise
        ELSE IF Truthy(cb.err)
        THEN Rejected(IF IsString(cb.err)
                      THEN [unknown EXCEPT !.responseMessage = cb.err]
                      ELSE unknown)
        ELSE IF parse(cb.res).result = "Success"
        THEN Resolved(parse(cb.res))
        ELSE Rejected(parse(cb.res))

\* C9: concurrent invocations share no mutable state: in every interleaving
\* an invocation that has run all its handlers holds the outcome it would
\* have had running alone, which depends on its own messageData, its
\* client's configuration and its own transport response only, and an
\* invocation with a handler still to run is not settled by another one.
C9_ConcurrentSendsAreIndependent ==
    \A i \in SendIds :
        /\ sends[i].pc = "done" =>
                sends[i].promise = OutcomeAlone(ThisOf(i), sends[i].md,
                                                sends[i].requestJson, sends[i].cb)
        /\ sends[i].pc # "done" => sends[i].promise = PendingPromise

C9_Witness ==
    \E i, j \in SendIds :
        /\ i < j
        /\ sends[i].client = sends[j].client
        /\ sends[i].pc = "posted"
        /\ sends[j].pc = "done"
        /\ sends[j].promise.state = "resolved"

\* C10: the endpoint URL a client posts to is the default
\* https://inject.socketlabs.com/api/v1/email when the constructor is given
\* no endpointUrl, null or the empty string, and is the override when given
\* a non-empty one: the constructor sets it so, no step changes it, and
\* every POST issued goes to it.  (serverId and apiKey are stored as given,
\* so a constructor step's first two arguments are read off the new object.)
C10_EndpointUrl ==
    [][/\ \A c \in Clients :
            (clients[c] = NoClient /\ clients'[c] # NoClient) =>
                \A e \in EndpointUrlArgs :
                    (\E optionalProxy \in OptionalProxyArgs :
                        Constructor(c, clients'[c].serverId, clients'[c].apiKey,
                                    e, optionalProxy)) =>
                        clients'[c].endpointUrl =
                            IF e \in {Undefined, Null, Str("")}
                            THEN Str("https://inject.socketlabs.com/api/v1/email")
                            ELSE e
       /\ \A c \in Clients : clients[c] # NoClient => clients'[c] = clients[c]
       /\ \A i \in SendIds :
            Len(sends'[i].posts) > Len(sends[i].posts) =>
                sends'[i].posts[Len(sends'[i].posts)].options.url
                    = clients[sends'[i].client].endpointUrl
      ]_vars

C10_Witness ==
    \E i, j \in SendIds :
        /\ Len(sends[i].posts) = 1 /\ Len(sends[j].posts) = 1
        /\ sends[i].posts[1].options.url = DefaultEndpointUrl
        /\ sends[j].posts[1].options.url = Str("https://alt.example/api")

\* messageData has a From address.
HasFrom(md) == md.from.t = "emailAddress" /\ md.from.emailAddress # ""

\* The invocation handed its messageData to the factory (its credentials
\* are valid).
FactoryCalled(i) == sends[i].factoryCalls > 0

\* The invocation is rejected with a SendResponse of result r.
RejectedWith(i, r) ==
    /\ sends[i].promise.state = "rejected"
    /\ sends[i].promise.value.t = "sendResponse"
    /\ sends[i].promise.value.result = r

C12_EmptyBodiesRejects ==
    \A i \in SendIds :
        (FactoryCalled(i)
            /\ HasFrom(sends[i].md)
            /\ Len(sends[i].md.to) > 0
            /\ ~Truthy(sends[i].md.textBody)
            /\ ~Truthy(sends[i].md.htmlBody)) =>
            /\ sends[i].posts = <<>>
            /\ sends[i].pc \in {"factory", "done"}
            /\ sends[i].pc = "done" => RejectedWith(i, "MessageValidationFailed")

C12_Witness ==
    \E i \in SendIds :
        /\ sends[i].pc = "done"
        /\ FactoryCalled(i)
        /\ sends[i].md = EmptyBodiesMessage
        /\ sends[i].promise.state = "rejected"

C14_SettledAtMostOnce ==
    \A i \in SendIds : sends[i].settleCalls <= 1

\* C15: on a transport error the UnknownError outcome carries
\* responseMessage equal to the error when the error is a string, and no
\* responseMessage when it is any other kind of value.
C15_ResponseMessageOnlyForStrings ==
    \A i \in SendIds :
        TransportFailed(i) =>
            /\ RejectedWith(i, "UnknownError")
            /\ IsString(sends[i].cb.err) =>
                    sends[i].promise.value.responseMessage = sends[i].cb.err
            /\ ~IsString(sends[i].cb.err) =>
                    sends[i].promise.value.responseMessage = Undefined

C15_Witness ==
    \E i, j \in SendIds :
        /\ TransportFailed(i) /\ TransportFailed(j)
        /\ sends[i].promise.value.responseMessage = Str("ECONNREFUSED")
        /\ sends[j].cb.err = ErrorObject("ETIMEDOUT")
        /\ sends[j].promise.value.responseMessage = Undefined

\* C16: send never writes the client's configuration: no step changes the
\* serverId, apiKey, endpointUrl or userAgent of a constructed client, so
\* the credentials put into a POST body are the client's, the ones whose
\* validation result the invocation holds from its start.
C16_SendLeavesConfiguration ==
    [][/\ \A c \in Clients : clients[c] # NoClient => clients'[c] = clients[c]
       /\ \A i \in SendIds :
            Len(sends'[i].posts) > Len(sends[i].posts) =>
                LET body == sends'[i].posts[Len(sends'[i].posts)].options.body
                IN  /\ body.serverId = clients'[sends[i].client].serverId
                    /\ body.apiKey = clients'[sends[i].client].apiKey
                    /\ validateCredentials(body.serverId, body.apiKey)
                            = sends[i].result
      ]_vars

C16_Witness ==
    \E i, j \in SendIds :
        /\ i < j
        /\ sends[i].client = sends[j].client
        /\ sends[i].cb # Undefined
        /\ Len(sends[j].posts) = 1
        /\ sends[j].posts[1].options.body.apiKey = Str("key")
        /\ clients[sends[j].client].apiKey = Str("key")

\* The proxy that request.post applies to a POST of client c: line 114
\* posts through the shared `request` module, whichever the client.
ProxyInEffect(c) == requestModule.proxy

\* C17: a client constructed with a string optionalProxy issues every POST
\* with that proxy in effect: its constructor puts the proxy in effect for
\* the client, and each POST of a client is issued with the proxy in effect
\* for that client.
C17_ProxyInEffect ==
    [][/\ \A c \in Clients :
            (clients[c] = NoClient /\ clients'[c] # NoClient) =>
                \A optionalProxy \in OptionalProxyArgs :
                    (/\ IsString(optionalProxy)
                     /\ \E e \in EndpointUrlArgs :
                            Constructor(c, clients'[c].serverId,
                                        clients'[c].apiKey, e, optionalProxy)) =>
                        ProxyInEffect(c)' = optionalProxy
       /\ \A i \in SendIds :
            Len(sends'[i].posts) > Len(sends[i].posts) =>
                sends'[i].posts[Len(sends'[i].posts)].proxy
                    = ProxyInEffect(sends'[i].client)
      ]_vars

=============================================================================
